---- MODULE Spec2Model ----
(***************************************************************************)
(* Model of backend/app.py of stream-finder: the latent-semantic search    *)
(* engine OptimizedTFIDFSVDSearch (load_model, query,                      *)
(* analyze_svd_components, plot_singular_values), the module-level         *)
(* start-up that installs search_engine, and the /search and /analyze_svd  *)
(* handlers with the metadata table streamer_csv_data.                     *)
(*                                                                         *)
(* Conventions.  Python ordinals are 0-based; here rows, columns and       *)
(* document ordinals are 1-based (ordinal d here is d-1 there).  Floating  *)
(* point values are fixed-point integers: vector entries after             *)
(* normalize() and contributions are in units of 1/FP, similarities in     *)
(* units of 1/(FP*FP).  With FP = 100 a similarity in those units is       *)
(* round(similarity * 100, 2) counted in hundredths.                       *)
(***************************************************************************)
EXTENDS Integers, Sequences, FiniteSets, TLC

VARIABLES
    disk,               \* the files of models_dir
    phase,              \* "start" | "serving" | "aborted"
    search_engine,      \* the module-level search_engine
    streamer_csv_data,  \* the module-level dict built from the CSV
    response            \* what the last call or request returned

vars == <<disk, phase, search_engine, streamer_csv_data, response>>

(***************************************************************************)
(* Bounds of the model.                                                    *)
(***************************************************************************)
NDocs == 2          \* documents in the corpus
NComponents == 4    \* latent dimensions k
MaxQueryLen == 1    \* tokens in a query text
FP == 100           \* fixed-point resolution

(***************************************************************************)
(* Program constants.                                                      *)
(***************************************************************************)
TopDims == 3        \* [:3] of the contribution ranking
SearchTopK == 50    \* top_k passed by /search
DocsPerStreamer == 5
FinalLimit == 10
AnalyzeTerms == 15  \* n_terms passed by /analyze_svd

None == "None"

(***************************************************************************)
(* Arithmetic and sequence helpers.                                        *)
(***************************************************************************)
Abs(x) == IF x < 0 THEN -x ELSE x

Min(a, b) == IF a < b THEN a ELSE b

Max(a, b) == IF a > b THEN a ELSE b

\* x / y rounded toward zero
Quot(x, y) == IF x < 0 THEN -((-x) \div y) ELSE x \div y

RECURSIVE IsqrtIn(_, _, _)
IsqrtIn(lo, hi, x) ==
    IF lo >= hi THEN lo
    ELSE LET mid == (lo + hi + 1) \div 2
         IN  IF mid * mid <= x THEN IsqrtIn(mid, hi, x) ELSE IsqrtIn(lo, mid - 1, x)

\* floor of the square root (46340 is the largest root of a 32-bit integer)
Isqrt(x) == IsqrtIn(0, Min(x, 46340), x)

RECURSIVE SumSeq(_)
SumSeq(v) == IF v = <<>> THEN 0 ELSE Head(v) + SumSeq(Tail(v))

Dot(a, b) == SumSeq([i \in 1..Len(a) |-> a[i] * b[i]])

\* Python's seq[:n]: the first n items, counted from the end when n < 0
Slice(seq, n) ==
    LET m == IF n < 0 THEN Max(Len(seq) + n, 0) ELSE Min(n, Len(seq))
    IN  SubSeq(seq, 1, m)

(***************************************************************************)
(* The inputs: vocabulary, query texts, source tags, entity names.         *)
(***************************************************************************)
Vocabulary == <<"game", "chess", "music">>

NTerms == Len(Vocabulary)

\* a token that is not in the vocabulary
OOV == "zzz"

QueryTokens == { Vocabulary[i] : i \in 1..NTerms } \cup {OOV}

QueryTexts == UNION { [1..n -> QueryTokens] : n \in 0..MaxQueryLen }

KnownSources == {"reddit", "twitter", "wiki", "details"}

StreamerNames == <<"Ninja", "NINJA", "xQc">>

StreamerOf(d) == StreamerNames[((d - 1) % Len(StreamerNames)) + 1]

\* the text of document d; texts are distinct and shorter than 150 characters
TextOf(d) == <<"text", d>>

(***************************************************************************)
(* numpy and sklearn primitives.                                           *)
(***************************************************************************)
\* np.argsort(-x) under one tie order.  The default kind of np.argsort is an
\* unstable sort: the order it gives to equal keys is not defined.  rank
\* says which of two equal keys comes first in this run
ArgsortDesc(x, rank) ==
    LET Before(a, b) == x[a] > x[b] \/ (x[a] = x[b] /\ rank[a] < rank[b])
        Place(a) == 1 + Cardinality({ b \in 1..Len(x) : Before(b, a) })
    IN  [pos \in 1..Len(x) |-> CHOOSE a \in 1..Len(x) : Place(a) = pos]

\* the tie orders tried: ascending index (what a stable sort gives) and
\* descending index
TieRanks(n) == { [i \in 1..n |-> i], [i \in 1..n |-> n + 1 - i] }

\* sklearn.preprocessing.normalize of one row (l2); a zero norm is replaced
\* by 1, which leaves the zero row as it is
DivideBy(w, norm) == [i \in 1..Len(w) |-> Quot(w[i] * FP * FP, norm)]

normalize(w) ==
    IF Dot(w, w) = 0 THEN w ELSE DivideBy(w, Isqrt(Dot(w, w) * FP * FP))

\* vectorizer.transform([text]): term frequency times idf over the fixed
\* vocabulary; tokens outside the vocabulary add nothing.  A row norm applied
\* by the vectorizer is a positive factor, which normalize() removes again
transform(vectorizer, text) ==
    [t \in 1..Len(vectorizer.idf_) |->
        Cardinality({ p \in 1..Len(text) :
            /\ text[p] \in DOMAIN vectorizer.vocabulary_
            /\ vectorizer.vocabulary_[text[p]] = t }) * vectorizer.idf_[t]]

(***************************************************************************)
(* OptimizedTFIDFSVDSearch.query                                           *)
(***************************************************************************)
\* query_vec_norm[0]: project on Vt, weight by the singular values, normalize
query_vec_norm(self, query_text) ==
    LET query_tfidf == transform(self.vectorizer, query_text)
        query_vec == [i \in 1..Len(self.vt) |-> Dot(query_tfidf, self.vt[i])]
        weighted_query_vec == [i \in 1..Len(self.s) |-> query_vec[i] * self.s[i]]
    IN  normalize(weighted_query_vec)

\* similarities.flatten()
similarities(self, qn) ==
    [d \in 1..Len(self.docs_compressed) |-> Dot(self.docs_compressed[d], qn)]

\* np.argsort(-similarities.flatten())[:top_k]
top_indices(sims, top_k, doc_rank) == Slice(ArgsortDesc(sims, doc_rank), top_k)

\* as dimension_contributions, with the compressed vector in place of the U row
dimension_contributions_compressed(self, doc_idx, qn) ==
    [i \in 1..Len(qn) |-> self.docs_compressed[doc_idx][i] * qn[i]]

\* doc_factors * query_factors
dimension_contributions(self, doc_idx, qn) ==
    [i \in 1..Len(qn) |-> self.u[doc_idx][i] * qn[i]]

\* as top_dim_indices, ranking by magnitude instead of signed value
top_dim_indices_abs(contributions, dim_rank) ==
    Slice(ArgsortDesc([i \in 1..Len(contributions) |-> Abs(contributions[i])], dim_rank),
          TopDims)

\* np.argsort(-dimension_contributions)[:3]
top_dim_indices(contributions, dim_rank) ==
    Slice(ArgsortDesc(contributions, dim_rank), TopDims)

top_dimensions(self, contributions, dim_indices) ==
    [j \in 1..Len(dim_indices) |->
        [index |-> dim_indices[j],
         label |-> self.dimension_labels[dim_indices[j]],
         contribution |-> contributions[dim_indices[j]]]]

\* the if/elif chain over the source tag: <<result>> when a branch assigns
\* result, <<>> when no branch is taken.  sim_score is the similarity in
\* units of 1/(FP*FP); the wiki payload is a dict and the details payload
\* has a Description, as DataFor builds them
FormatResult(source, streamer, data, similarity_score, dims) ==
    IF source = "reddit" THEN
        << [source |-> source, name |-> streamer, doc |-> data.Title,
            sim_score |-> similarity_score, reddit_score |-> data.Score,
            id |-> data.ID, top_dimensions |-> dims] >>
    ELSE IF source = "twitter" THEN
        << [source |-> source, name |-> streamer, doc |-> data,
            sim_score |-> similarity_score, top_dimensions |-> dims] >>
    ELSE IF source = "wiki" THEN
        << [source |-> source, name |-> streamer, doc |-> data.wikipedia_summary,
            sim_score |-> similarity_score, top_dimensions |-> dims] >>
    ELSE IF source = "details" THEN
        << [source |-> source, name |-> streamer, doc |-> data.Description,
            sim_score |-> similarity_score, top_dimensions |-> dims] >>
    ELSE <<>>

\* one pass of the loop body for doc_idx.  st.result is the local variable
\* result: <<>> while unbound, and it keeps its value from the previous pass
\* when no branch assigns it; results.append(result) raises
\* UnboundLocalError while it is unbound
AppendResult(st, result) ==
    IF result = <<>>
    THEN [st EXCEPT !.raised = TRUE]
    ELSE [results |-> Append(st.results, result[1]), result |-> result, raised |-> FALSE]

KeepOrAssign(st, assigned) ==
    AppendResult(st, IF assigned = <<>> THEN st.result ELSE assigned)

TopDimensionsOf(self, contributions, dim_rank) ==
    top_dimensions(self, contributions, top_dim_indices(contributions, dim_rank))

LoopBody(self, sims, qn, doc_idx, st, dim_rank) ==
    IF st.raised THEN st
    ELSE KeepOrAssign(st,
            FormatResult(self.doc_lookup[doc_idx][1], self.doc_lookup[doc_idx][2],
                         self.doc_lookup[doc_idx][4], sims[doc_idx],
                         TopDimensionsOf(self, dimension_contributions(self, doc_idx, qn),
                                         dim_rank)))

RECURSIVE FormatLoop(_, _, _, _, _, _)
FormatLoop(self, sims, qn, rest, st, dim_rank) ==
    IF rest = <<>> THEN st
    ELSE FormatLoop(self, sims, qn, Tail(rest),
                    LoopBody(self, sims, qn, Head(rest), st, dim_rank), dim_rank)

\* lines 113-188 of query, given query_vec_norm[0] and the similarities
RankAndFormat(self, qn, sims, top_k, doc_rank, dim_rank) ==
    FormatLoop(self, sims, qn, top_indices(sims, top_k, doc_rank),
               [results |-> <<>>, result |-> <<>>, raised |-> FALSE], dim_rank)

Returned(st) ==
    IF st.raised
    THEN [outcome |-> "raise", error |-> "UnboundLocalError"]
    ELSE [outcome |-> "return", value |-> st.results]

QueryFrom(self, qn, top_k, doc_rank, dim_rank) ==
    Returned(RankAndFormat(self, qn, similarities(self, qn), top_k, doc_rank, dim_rank))

\* query(query_text, top_k) under the tie orders doc_rank and dim_rank: the
\* returned list, or the exception that leaves the call
query(self, query_text, top_k, doc_rank, dim_rank) ==
    QueryFrom(self, query_vec_norm(self, query_text), top_k, doc_rank, dim_rank)

(***************************************************************************)
(* OptimizedTFIDFSVDSearch.analyze_svd_components, plot_singular_values    *)
(***************************************************************************)
\* analyze_svd_components(n_terms) under the tie order term_rank
ComponentEntry(self, i, top_indices_i) ==
    [dim |-> i,
     top_terms |-> [j \in 1..Len(top_indices_i) |-> self.index_to_word[top_indices_i[j]]],
     label |-> self.dimension_labels[i]]

\* as analyze_svd_components, sorting the loadings in ascending order
analyze_svd_components_ascending(self, n_terms, term_rank) ==
    [i \in 1..Len(self.dimension_labels) |->
        ComponentEntry(self, i,
            Slice(ArgsortDesc([t \in 1..Len(self.vt[i]) |-> -self.vt[i][t]], term_rank),
                  n_terms))]

analyze_svd_components(self, n_terms, term_rank) ==
    [i \in 1..Len(self.dimension_labels) |->
        ComponentEntry(self, i, Slice(ArgsortDesc(self.vt[i], term_rank), n_terms))]

plot_singular_values(self) == self.s

(***************************************************************************)
(* The metadata table and its lookups.                                     *)
(***************************************************************************)
\* str.upper(), str.lower(), str.title(), str.replace(" ", "") on the names
Upper(name) == CASE name \in {"Ninja", "NINJA"} -> "NINJA" [] name = "xQc" -> "XQC"

Lower(name) == CASE name \in {"Ninja", "NINJA"} -> "ninja" [] name = "xQc" -> "xqc"

Title(name) == CASE name \in {"Ninja", "NINJA"} -> "Ninja" [] name = "xQc" -> "Xqc"

NoSpace(name) == name

\* streamer_csv_data as built from streamer_details.csv: one row per
\* upper-cased Name; the first row has no Twitch URL
LoadedCsv ==
    [key \in {"NINJA", "XQC"} |->
        IF key = "NINJA"
        THEN ("Name" :> "Ninja") @@ ("Twitch URL" :> "")
        ELSE ("Name" :> "xQc") @@ ("Twitch URL" :> "https://www.twitch.tv/xqc")]

\* the key of the row get_twitch_info finds, None when no variant is a key
Variants(streamer_name) ==
    <<streamer_name, Upper(streamer_name), Lower(streamer_name),
      Title(streamer_name), NoSpace(streamer_name)>>

FirstHit(variants, hits) ==
    IF hits = {} THEN None ELSE variants[CHOOSE j \in hits : \A h \in hits : j <= h]

TwitchKey(csv, streamer_name) ==
    FirstHit(Variants(streamer_name),
             { j \in 1..Len(Variants(streamer_name)) :
                 Variants(streamer_name)[j] \in DOMAIN csv })

\* get_twitch_info: the table after the call.  A row without a Twitch URL
\* gets data["url"] = default_url, and data is the row of the table itself
SetDefaultUrl(csv, key, streamer_name) ==
    IF key = None THEN csv
    ELSE IF "Twitch URL" \in DOMAIN csv[key] /\ csv[key]["Twitch URL"] # ""
    THEN csv
    ELSE [csv EXCEPT ![key] =
            [col \in DOMAIN csv[key] \cup {"url"} |->
                IF col = "url" THEN <<"https://www.twitch.tv/", streamer_name>>
                ELSE csv[key][col]]]

get_twitch_info(csv, streamer_name) ==
    SetDefaultUrl(csv, TwitchKey(csv, streamer_name), streamer_name)

\* get_csv_streamer_info: the key of the row it returns, None when absent
get_csv_streamer_info(csv, streamer_name) ==
    IF Upper(streamer_name) \in DOMAIN csv THEN Upper(streamer_name) ELSE None

get_streamer_image_path(streamer_name) ==
    <<"images/streamer_images/", Upper(streamer_name), ".jpg">>

(***************************************************************************)
(* search_streamer                                                         *)
(***************************************************************************)
\* the keys of streamer_results in insertion order
RECURSIVE StreamerOrder(_, _)
StreamerOrder(results, seen) ==
    IF results = <<>> THEN seen
    ELSE StreamerOrder(Tail(results),
            IF \E j \in 1..Len(seen) : seen[j] = Head(results).name
            THEN seen ELSE Append(seen, Head(results).name))

\* the table after get_twitch_info was called for each new streamer
RECURSIVE CsvAfter(_, _)
CsvAfter(csv, streamers) ==
    IF streamers = <<>> THEN csv
    ELSE CsvAfter(get_twitch_info(csv, Head(streamers)), Tail(streamers))

DocumentsOf(results, streamer) ==
    Slice(SelectSeq(results, LAMBDA r : r.name = streamer), DocsPerStreamer)

TotalOf(documents) == SumSeq([j \in 1..Len(documents) |-> documents[j].sim_score])

\* list.sort(key=..., reverse=True): stable, larger keys first
InsertAfter(first, rest, n) ==
    SubSeq(rest, 1, n) \o <<first>> \o SubSeq(rest, n + 1, Len(rest))

\* first goes behind the entries of rest whose key is larger
InsertByTotal(first, rest) ==
    InsertAfter(first, rest,
        Cardinality({ j \in 1..Len(rest) :
                        TotalOf(rest[j].documents) > TotalOf(first.documents) }))

RECURSIVE SortByTotal(_)
SortByTotal(entries) ==
    IF entries = <<>> THEN <<>>
    ELSE InsertByTotal(Head(entries), SortByTotal(Tail(entries)))

\* jsonify of a row reference: the row as it is when the response is built
Deref(csv, key) == IF key = None THEN None ELSE csv[key]

\* final_results before the sort, with the rows as they are at jsonify
FinalResults(csv, results, streamers, after) ==
    [j \in 1..Len(streamers) |->
        [name |-> streamers[j],
         documents |-> DocumentsOf(results, streamers[j]),
         twitch_info |-> Deref(after, TwitchKey(csv, streamers[j])),
         image_path |-> get_streamer_image_path(streamers[j]),
         csv_data |-> Deref(after, get_csv_streamer_info(csv, streamers[j]))]]

GroupAndSort(csv, results, streamers, after) ==
    [status |-> 200,
     body |-> Slice(SortByTotal(FinalResults(csv, results, streamers, after)), FinalLimit),
     csv |-> after]

GroupByStreamer(csv, results, streamers) ==
    GroupAndSort(csv, results, streamers, CsvAfter(csv, streamers))

\* lines 271-302 of search_streamer: the response for the list query()
\* returned, and the table afterwards
SearchBody(csv, results) == GroupByStreamer(csv, results, StreamerOrder(results, <<>>))

\* the response when query() ended as r
SearchResponse(csv, r) ==
    IF r.outcome = "raise"
    THEN [status |-> 500, body |-> r.error, csv |-> csv]
    ELSE SearchBody(csv, r.value)

\* GET /search?name=query_text under the tie orders of its query() call: the
\* response and the table afterwards
search_streamer(engine, csv, query_text, doc_rank, dim_rank) ==
    IF query_text = <<>>
    THEN [status |-> 200, body |-> <<>>, csv |-> csv]
    ELSE SearchResponse(csv, query(engine, query_text, SearchTopK, doc_rank, dim_rank))

(***************************************************************************)
(* The model bundle in models_dir.                                         *)
(***************************************************************************)
\* candidate rows of U: un-normalized concept loadings of one document
URows ==
    << [i \in 1..NComponents |-> i],
       [i \in 1..NComponents |-> IF i % 2 = 1 THEN 1 ELSE -1] >>

\* candidate matrices U: the rows are taken from URows, beginning at start
\* and advancing by step from one document to the next
UMatrix(start, step) ==
    [d \in 1..NDocs |-> URows[((start + (d - 1) * step) % Len(URows)) + 1]]

\* the payload of document d, shaped by its source
DataFor(source, d) ==
    CASE source = "reddit" -> [Title |-> TextOf(d), Score |-> 10 * d, ID |-> <<"id", d>>]
      [] source = "wiki" -> [wikipedia_summary |-> TextOf(d)]
      [] source = "details" -> [Description |-> TextOf(d)]
      [] OTHER -> TextOf(d)

\* compressed document vectors: the rows of U, each L2-normalized
Compress(u) == [d \in 1..Len(u) |-> normalize(u[d])]

Bundle(tags, u) ==
    [dir |-> TRUE,
     present |-> {"vectorizer", "u_matrix", "s_values", "vt_matrix", "docs_compressed",
                  "doc_lookup", "index_to_word", "dimension_labels"},
     vectorizer |->
        [vocabulary_ |-> [w \in { Vocabulary[t] : t \in 1..NTerms } |->
                            CHOOSE t \in 1..NTerms : Vocabulary[t] = w],
         idf_ |-> [t \in 1..NTerms |-> 1 + (t % 2)]],
     u_matrix |-> u,
     s_values |-> [i \in 1..NComponents |-> NComponents + 1 - i],
     vt_matrix |-> [i \in 1..NComponents |->
                      [t \in 1..NTerms |-> ((i * t + i) % 3) - 1]],
     docs_compressed |-> Compress(u),
     doc_lookup |-> [d \in 1..NDocs |-> <<tags[d], StreamerOf(d), d, DataFor(tags[d], d)>>],
     index_to_word |-> Vocabulary,
     dimension_labels |-> [i \in 1..NComponents |-> <<"label", i>>]]

\* source tags of the documents: the documents in unknown carry a tag outside
\* the closed set, the others take the four known tags in turn from offset
KnownTags == <<"reddit", "twitter", "wiki", "details">>

TagsOf(unknown, offset) ==
    [d \in 1..NDocs |->
        IF d \in unknown THEN "blog" ELSE KnownTags[((d - 1 + offset) % Len(KnownTags)) + 1]]

IntactBundles ==
    { Bundle(TagsOf(unknown, offset), UMatrix(start, step)) :
        unknown \in SUBSET (1..NDocs), offset \in {0, Len(KnownTags) \div 2},
        start \in {0, 1}, step \in {0, 1} }

ArrayFiles == {"u_matrix", "s_values", "vt_matrix", "docs_compressed"}

PickleFiles == {"vectorizer", "doc_lookup", "index_to_word", "dimension_labels"}

DropLast(seq) == SubSeq(seq, 1, Len(seq) - 1)

DropLastCol(m) == [r \in 1..Len(m) |-> DropLast(m[r])]

\* a bundle with one file absent, or with models_dir itself absent
MissingBundles(b) ==
    { [b EXCEPT !.present = @ \ {f}] : f \in ArrayFiles \cup PickleFiles }
        \cup { [b EXCEPT !.dir = FALSE] }

\* a bundle in which one artifact has one latent dimension or one document
\* fewer than the others
MisshapenBundles(b) ==
    { [b EXCEPT !.u_matrix = DropLastCol(@)],
      [b EXCEPT !.s_values = DropLast(@)],
      [b EXCEPT !.vt_matrix = DropLast(@)],
      [b EXCEPT !.dimension_labels = DropLast(@)],
      [b EXCEPT !.u_matrix = DropLast(@)],
      [b EXCEPT !.docs_compressed = DropLast(@)],
      [b EXCEPT !.doc_lookup = DropLast(@)] }

AnyBundles ==
    IntactBundles \cup UNION { MissingBundles(b) \cup MisshapenBundles(b) : b \in IntactBundles }

\* os.path.isfile: b.present names the files that exist in models_dir
Present(b, f) == b.dir /\ f \in b.present

AllPresent(b) == \A f \in ArrayFiles \cup PickleFiles : Present(b, f)

\* number of columns of a matrix
Cols(m) == IF m = <<>> THEN 0 ELSE Len(m[1])

\* k agrees among U, the singular values, Vt and the labels, and n_docs
\* agrees among U, the compressed vectors and the document index
ShapeConsistent(b) ==
    /\ Cols(b.u_matrix) = Len(b.s_values)
    /\ Len(b.vt_matrix) = Len(b.s_values)
    /\ Len(b.dimension_labels) = Len(b.s_values)
    /\ Cols(b.docs_compressed) = Len(b.s_values)
    /\ Len(b.docs_compressed) = Len(b.u_matrix)
    /\ Len(b.doc_lookup) = Len(b.u_matrix)

(***************************************************************************)
(* Start-up: OptimizedTFIDFSVDSearch.__init__, load_model and the          *)
(* module-level choice of search_engine.                                   *)
(***************************************************************************)
Idle == [call |-> "none"]

Unset == [kind |-> "unset"]

\* the engine after load_model: each file is stored as read, unexamined
load_model(b) ==
    [kind |-> "OptimizedTFIDFSVDSearch",
     vectorizer |-> b.vectorizer,
     word_to_index |-> b.vectorizer.vocabulary_,
     u |-> b.u_matrix,
     s |-> b.s_values,
     vt |-> b.vt_matrix,
     docs_compressed |-> b.docs_compressed,
     doc_lookup |-> b.doc_lookup,
     index_to_word |-> b.index_to_word,
     dimension_labels |-> b.dimension_labels]

\* vectorizer.pkl is there and every later open()/np.load succeeds
StartOptimized ==
    /\ phase = "start"
    /\ Present(disk, "vectorizer")
    /\ AllPresent(disk)
    /\ search_engine' = load_model(disk)
    /\ phase' = "serving"
    /\ UNCHANGED <<disk, streamer_csv_data, response>>

\* vectorizer.pkl is there but a later file is not: load_model raises and
\* the module import ends with search_engine never assigned
StartAbort ==
    /\ phase = "start"
    /\ Present(disk, "vectorizer")
    /\ ~AllPresent(disk)
    /\ phase' = "aborted"
    /\ UNCHANGED <<disk, search_engine, streamer_csv_data, response>>

\* models_dir or vectorizer.pkl is absent: the in-memory engine is built
StartFallback ==
    /\ phase = "start"
    /\ ~Present(disk, "vectorizer")
    /\ search_engine' = [kind |-> "TFIDFSVDSearch", n_components |-> 30]
    /\ phase' = "serving"
    /\ UNCHANGED <<disk, streamer_csv_data, response>>

(***************************************************************************)
(* Serving.                                                                *)
(***************************************************************************)
TopKs == (-1)..(NDocs + 1)

Serving == phase = "serving" /\ search_engine.kind = "OptimizedTFIDFSVDSearch"

\* the calls query(query_text, top_k) for one text, whose normalized concept
\* vector is qn
QueryCalls(query_text, qn) ==
    \E top_k \in TopKs :
        \E doc_rank \in TieRanks(Len(search_engine.docs_compressed)),
           dim_rank \in TieRanks(Len(search_engine.s)) :
            response' = [call |-> "query", query_text |-> query_text, top_k |-> top_k]
                            @@ QueryFrom(search_engine, qn, top_k, doc_rank, dim_rank)

\* search_engine.query(query_text, top_k)
Query ==
    /\ Serving
    /\ response = Idle
    /\ \E query_text \in QueryTexts :
        QueryCalls(query_text, query_vec_norm(search_engine, query_text))
    /\ UNCHANGED <<disk, phase, search_engine, streamer_csv_data>>

\* GET /search
SearchStreamer ==
    /\ Serving
    /\ response = Idle
    /\ \E query_text \in QueryTexts :
        \E doc_rank \in TieRanks(Len(search_engine.docs_compressed)),
           dim_rank \in TieRanks(Len(search_engine.s)) :
            \E r \in { search_streamer(search_engine, streamer_csv_data, query_text,
                                       doc_rank, dim_rank) } :
                /\ response' = [call |-> "search", query_text |-> query_text,
                                status |-> r.status, body |-> r.body]
                /\ streamer_csv_data' = r.csv
    /\ UNCHANGED <<disk, phase, search_engine>>

\* as AnalyzeSvdComponents, sorting each row of Vt in place before reading it
AnalyzeSvdComponentsInPlace ==
    /\ Serving
    /\ response = Idle
    /\ \E n_terms \in 0..NTerms, term_rank \in TieRanks(NTerms) :
        /\ response' = [call |-> "analyze_svd_components", n_terms |-> n_terms,
                        value |-> analyze_svd_components(search_engine, n_terms, term_rank)]
        /\ search_engine' =
            [search_engine EXCEPT !.vt =
                [i \in 1..Len(@) |->
                    [j \in 1..Len(@[i]) |-> @[i][ArgsortDesc(@[i], term_rank)[j]]]]]
    /\ UNCHANGED <<disk, phase, streamer_csv_data>>

\* search_engine.analyze_svd_components(n_terms)
AnalyzeSvdComponents ==
    /\ Serving
    /\ response = Idle
    /\ \E n_terms \in 0..NTerms, term_rank \in TieRanks(NTerms) :
        response' = [call |-> "analyze_svd_components", n_terms |-> n_terms,
                     value |-> analyze_svd_components(search_engine, n_terms, term_rank)]
    /\ UNCHANGED <<disk, phase, search_engine, streamer_csv_data>>

\* search_engine.plot_singular_values()
PlotSingularValues ==
    /\ Serving
    /\ response = Idle
    /\ response' = [call |-> "plot_singular_values",
                    value |-> plot_singular_values(search_engine)]
    /\ UNCHANGED <<disk, phase, search_engine, streamer_csv_data>>

\* GET /analyze_svd
AnalyzeSvd ==
    /\ Serving
    /\ response = Idle
    /\ \E term_rank \in TieRanks(NTerms) :
        response' = [call |-> "analyze_svd",
                     components |-> analyze_svd_components(search_engine, AnalyzeTerms,
                                                           term_rank),
                     singular_values |-> plot_singular_values(search_engine)]
    /\ UNCHANGED <<disk, phase, search_engine, streamer_csv_data>>

\* the caller takes the returned value; the next call can begin
Reply ==
    /\ response # Idle
    /\ response' = Idle
    /\ UNCHANGED <<disk, phase, search_engine, streamer_csv_data>>

(***************************************************************************)
(* Specifications.                                                         *)
(***************************************************************************)
\* serving from a well-formed bundle
Init ==
    /\ disk \in IntactBundles
    /\ phase = "start"
    /\ search_engine = Unset
    /\ streamer_csv_data = LoadedCsv
    /\ response = Idle

Next ==
    \/ StartOptimized
    \/ Query
    \/ SearchStreamer
    \/ AnalyzeSvdComponents
    \/ PlotSingularValues
    \/ AnalyzeSvd
    \/ Reply

Spec == Init /\ [][Next]_vars

\* start-up from any bundle, well-formed or not
InitLoad ==
    /\ disk \in AnyBundles
    /\ phase = "start"
    /\ search_engine = Unset
    /\ streamer_csv_data = LoadedCsv
    /\ response = Idle

NextLoad ==
    \/ StartOptimized
    \/ StartAbort
    \/ StartFallback

SpecLoad == InitLoad /\ [][NextLoad]_vars

(***************************************************************************)
(* Properties.                                                             *)
(***************************************************************************)
QueryCalled == response.call = "query"

QueryReturned == QueryCalled /\ response.outcome = "return"

\* the ordinal of the document a record was built from (its text is TextOf)
OrdinalOf(r) == r.doc[2]

\* the query shares a term with the vocabulary
HasOverlap(query_text) ==
    \E p \in 1..Len(query_text) : query_text[p] \in DOMAIN search_engine.word_to_index

UnknownDocs == { d \in 1..NDocs : search_engine.doc_lookup[d][1] \notin KnownSources }

\* C1: the records query() returns are in non-increasing order of
\* similarity, and records of equal similarity are in ascending order of
\* document ordinal.
C1_SortedTiesByOrdinal ==
    QueryReturned =>
        \A i, j \in 1..Len(response.value) :
            i < j =>
                /\ response.value[i].sim_score >= response.value[j].sim_score
                /\ response.value[i].sim_score = response.value[j].sim_score
                    => OrdinalOf(response.value[i]) <= OrdinalOf(response.value[j])

\* C2: for a query with vocabulary overlap and top_k >= 0, query() raises
\* no error and returns exactly min(top_k, n_docs) records, no two of them
\* for the same document ordinal.
C2_ExactlyMinTopKRecords ==
    (QueryCalled /\ response.top_k >= 0 /\ HasOverlap(response.query_text)) =>
        /\ response.outcome = "return"
        /\ Len(response.value) = Min(response.top_k, NDocs)
        /\ \A i, j \in 1..Len(response.value) :
            i # j => OrdinalOf(response.value[i]) # OrdinalOf(response.value[j])

\* C3: a query that shares no term with the vocabulary ends in an explicitly
\* signalled no-match outcome, through query() and through /search; it never
\* yields a list of result records.
C3_NoMatchIsSignalled ==
    /\ (QueryCalled /\ ~HasOverlap(response.query_text)) =>
            response.outcome = "raise" /\ response.error = "NoMatch"
    /\ (response.call = "search" /\ response.query_text # <<>>
            /\ ~HasOverlap(response.query_text)) => response.status # 200

\* C4: a selected document whose source tag is outside the closed set gets
\* no record and causes no error, and the other selected documents get
\* their records once each: query() never raises, no record is repeated, and
\* when every document is selected the records are those of the documents
\* with a known tag.
C4_UnknownTagOmitted ==
    QueryCalled =>
        /\ response.outcome = "return"
        /\ \A i, j \in 1..Len(response.value) :
            i # j => response.value[i] # response.value[j]
        /\ response.top_k >= NDocs =>
            { OrdinalOf(response.value[i]) : i \in 1..Len(response.value) }
                = (1..NDocs) \ UnknownDocs

\* C5: when a required file is absent or the artifacts disagree on k or on
\* n_docs, start-up never reaches the serving state and installs no engine.
C5_BadBundleAbortsStartup ==
    (~AllPresent(disk) \/ ~ShapeConsistent(disk)) =>
        phase # "serving" /\ search_engine.kind = "unset"

\* the contribution of dimension i for document d: U[d][i] * query_vec_norm[i]
ContributionOf(self, d, qn, i) == self.u[d][i] * qn[i]

\* td lists min(3, k) distinct dimensions in non-increasing contribution
\* order, each with its label and its contribution, and no unlisted
\* dimension contributes more than a listed one
ExplainedBy(self, d, qn, td) ==
    /\ Len(td) = Min(TopDims, Len(self.s))
    /\ \A a, b \in 1..Len(td) :
        a < b => td[a].index # td[b].index /\ td[a].contribution >= td[b].contribution
    /\ \A m \in 1..Len(td) :
        /\ td[m].index \in 1..Len(self.s)
        /\ td[m].label = self.dimension_labels[td[m].index]
        /\ td[m].contribution = ContributionOf(self, d, qn, td[m].index)
    /\ \A i \in 1..Len(self.s) :
        (\A m \in 1..Len(td) : td[m].index # i) =>
            \A m \in 1..Len(td) : ContributionOf(self, d, qn, i) <= td[m].contribution

AllExplained(self, qn, records) ==
    \A j \in 1..Len(records) :
        ExplainedBy(self, OrdinalOf(records[j]), qn, records[j].top_dimensions)

\* C6: the top_dimensions of every returned record are the 3 dimensions (all
\* k when k < 3) of highest signed U[doc][i] * normalized_query[i], in
\* non-increasing order, each with its index, its label and that value.
C6_TopDimensionsAreHighestSigned ==
    QueryReturned =>
        AllExplained(search_engine, query_vec_norm(search_engine, response.query_text),
                     response.value)

\* a record whose three listed contributions are not all equal was returned
C6_Witness ==
    /\ QueryReturned
    /\ \E j \in 1..Len(response.value) :
        /\ Len(response.value[j].top_dimensions) = TopDims
        /\ response.value[j].top_dimensions[1].contribution
            > response.value[j].top_dimensions[TopDims].contribution
        /\ \E i \in 1..Len(search_engine.s) :
            \A m \in 1..TopDims : response.value[j].top_dimensions[m].index # i

\* C7 as stated: no listed dimension has a negative contribution.
C7_NoNegativeDimension ==
    QueryReturned =>
        \A j \in 1..Len(response.value) :
            \A m \in 1..Len(response.value[j].top_dimensions) :
                response.value[j].top_dimensions[m].contribution >= 0

\* the number of dimensions with a non-negative contribution for document d
NonNegativeDims(self, d, qn) ==
    Cardinality({ i \in 1..Len(self.s) : ContributionOf(self, d, qn, i) >= 0 })

NegativeOnlyLast(self, qn, records) ==
    \A j \in 1..Len(records) :
        \A m \in 1..Len(records[j].top_dimensions) :
            records[j].top_dimensions[m].contribution < 0 =>
                /\ NonNegativeDims(self, OrdinalOf(records[j]), qn) < TopDims
                /\ NonNegativeDims(self, OrdinalOf(records[j]), qn) < m

\* C7 amended: a dimension with a negative contribution is listed only when
\* fewer than 3 dimensions have a non-negative contribution for that
\* document and query, and then behind all of those.
C7_NegativeOnlyWhenFewerThanThree ==
    QueryReturned =>
        NegativeOnlyLast(search_engine,
                         query_vec_norm(search_engine, response.query_text), response.value)

\* a returned record lists a dimension with a negative contribution
C7_Witness ==
    /\ QueryReturned
    /\ \E j \in 1..Len(response.value) :
        \E m \in 1..Len(response.value[j].top_dimensions) :
            response.value[j].top_dimensions[m].contribution < 0

\* the loading of a term in row i of Vt
LoadingOf(self, i, term) == self.vt[i][self.word_to_index[term]]

\* terms are n distinct vocabulary terms in non-increasing loading order, and
\* no other term has a larger loading than a listed one
TopTermsOf(self, i, n, terms) ==
    /\ Len(terms) = n
    /\ \A a \in 1..Len(terms) : terms[a] \in DOMAIN self.word_to_index
    /\ \A a, b \in 1..Len(terms) :
        a < b => terms[a] # terms[b]
                    /\ LoadingOf(self, i, terms[a]) >= LoadingOf(self, i, terms[b])
    /\ \A w \in DOMAIN self.word_to_index :
        (\A a \in 1..Len(terms) : terms[a] # w) =>
            \A a \in 1..Len(terms) : LoadingOf(self, i, w) <= LoadingOf(self, i, terms[a])

\* C8: analyze_svd_components(n), n <= n_terms, returns k entries in
\* ascending dimension index, entry i being (i, terms, dimension_labels[i])
\* with exactly n terms of row i of Vt in non-increasing loading order.
C8_ComponentsPerDimension ==
    response.call = "analyze_svd_components" =>
        /\ Len(response.value) = Len(search_engine.s)
        /\ \A i \in 1..Len(response.value) :
            /\ response.value[i].dim = i
            /\ response.value[i].label = search_engine.dimension_labels[i]
            /\ TopTermsOf(search_engine, i, response.n_terms, response.value[i].top_terms)

\* an analysis with two terms per dimension, some dimension having a term of
\* strictly smaller loading left out
C8_Witness ==
    /\ response.call = "analyze_svd_components"
    /\ response.n_terms = 2
    /\ \E i \in 1..Len(response.value) :
        \E w \in DOMAIN search_engine.word_to_index :
            LoadingOf(search_engine, i, w)
                < LoadingOf(search_engine, i, response.value[i].top_terms[2])

C10_MetadataTableUnchanged == streamer_csv_data = LoadedCsv

====
